---- MODULE Spec2Model ----
(***************************************************************************)
(* A model of SpotCLI (src/main.py): a terminal menu that drives a remote  *)
(* music service through an API client.  The model covers startup          *)
(* (setup_spotify), the menu loop of main, the seven command handlers and  *)
(* the text conversions they use (str.isdigit / int on console input, the  *)
(* M:SS and percentage rendering of show_current_track).                   *)
(*                                                                         *)
(* Strings are sequences of one-character tokens.  "0".."9" are the ASCII  *)
(* digits, "ar1" is ARABIC-INDIC DIGIT ONE (a decimal digit that is not    *)
(* ASCII), "sup2" is SUPERSCRIPT TWO (str.isdigit is true of it, int()     *)
(* rejects it), "zeros" is a run of int_max_str_digits - 1 characters "0"  *)
(* and occurs only as the first token of a string, every other token is a  *)
(* non-digit character.                                                    *)
(***************************************************************************)
EXTENDS Integers, Sequences, FiniteSets

(***************************************************************************)
(* Bounds of the model.                                                    *)
(***************************************************************************)
MaxPrompts == 2      \* menu prompts shown in one run
MaxMenuLen == 2      \* length of a line typed at the menu prompt
MaxInputLen == 3     \* length of a line typed at a handler's prompt
MaxAvail == 11       \* items the remote service holds for a search / a user

(***************************************************************************)
(* Characters and the two Python string operations the handlers use.       *)
(***************************************************************************)
AsciiDigits == <<"0", "1", "2", "3", "4", "5", "6", "7", "8", "9">>

RECURSIVE IndexOf(_, _, _)
IndexOf(c, seq, i) ==
    IF i > Len(seq) THEN 0
    ELSE IF seq[i] = c THEN i
    ELSE IndexOf(c, seq, i + 1)

\* sys.get_int_max_str_digits() of CPython 3.11 and later: int() of a
\* string with more digits raises ValueError
int_max_str_digits == 4300

\* the number of characters a token stands for
Width(c) == IF c = "zeros" THEN int_max_str_digits - 1 ELSE 1

RECURSIVE CharCount(_, _)
\* len(s) in characters, counted from token i on
CharCount(s, i) ==
    IF i > Len(s) THEN 0 ELSE Width(s[i]) + CharCount(s, i + 1)

\* unicodedata.decimal(c), or -1 when c is not a decimal digit; every
\* character of a run of zeros has the value 0
DecimalValue(c) ==
    IF c = "ar1" THEN 1
    ELSE IF c = "zeros" THEN 0
    ELSE IF IndexOf(c, AsciiDigits, 1) > 0 THEN IndexOf(c, AsciiDigits, 1) - 1
    ELSE -1

\* the per-character test of str.isdigit: decimal digits and other digits
IsDigitChar(c) == DecimalValue(c) >= 0 \/ c = "sup2"

\* str.isdigit(): non-empty and every character is a digit
isdigit(s) == Len(s) > 0 /\ \A i \in 1..Len(s) : IsDigitChar(s[i])

RECURSIVE DigitsValue(_, _, _)
DigitsValue(s, i, acc) ==
    IF i > Len(s) THEN acc
    ELSE DigitsValue(s, i + 1, acc * 10 + DecimalValue(s[i]))

\* int(s) for the strings the handlers pass to it (those with s.isdigit()):
\* the value of the decimal digits, ValueError when a character is a digit
\* that is not decimal or when s has more than int_max_str_digits digits,
\* leading zeros counted.  -1 stands for the raised ValueError.
int(s) ==
    IF /\ Len(s) > 0
       /\ \A i \in 1..Len(s) : DecimalValue(s[i]) >= 0
       /\ CharCount(s, 1) <= int_max_str_digits
    THEN DigitsValue(s, 1, 0)
    ELSE -1

RECURSIVE str(_)
\* str(n) for n >= 0
str(n) == IF n < 10 THEN <<AsciiDigits[n + 1]>>
          ELSE str(n \div 10) \o <<AsciiDigits[(n % 10) + 1]>>

\* Format02d without the zero padding, as f"{n}" would render
Format02dUnpadded(n) == str(n)

\* f"{n:02d}" for n >= 0
Format02d(n) == IF n < 10 THEN <<"0">> \o str(n) ELSE str(n)

(***************************************************************************)
(* Python float arithmetic of show_current_track, line 205 and 213:        *)
(* (progress_ms / duration_ms) * 100 rendered with the format .1f.  A      *)
(* float is an IEEE 754 binary64 with a significand of 53 bits; a          *)
(* non-negative one is the record [m, e] of value m * 2^e.  The            *)
(* significand does not fit the integers of the checker, so m is a natural *)
(* number written in base 256, least significant digit first (<<>> is 0).  *)
(***************************************************************************)
Precision == 53
Base == 2 * 2 * 2 * 2 * 2 * 2 * 2 * 2

RECURSIVE Pow2(_)
Pow2(n) == IF n = 0 THEN 1 ELSE 2 * Pow2(n - 1)

RECURSIVE Nat2Big(_)
Nat2Big(n) == IF n = 0 THEN <<>> ELSE <<n % Base>> \o Nat2Big(n \div Base)

RECURSIVE Big2Nat(_)
Big2Nat(N) == IF N = <<>> THEN 0 ELSE N[1] + Base * Big2Nat(Tail(N))

RECURSIVE Trim(_)
\* without the leading (last) zero digits
Trim(N) == IF N # <<>> /\ N[Len(N)] = 0 THEN Trim(SubSeq(N, 1, Len(N) - 1))
           ELSE N

RECURSIVE MulAdd(_, _, _)
\* N * c + carry for small integers c and carry
MulAdd(N, c, carry) ==
    IF N = <<>> THEN Nat2Big(carry)
    ELSE LET v == N[1] * c + carry
         IN  <<v % Base>> \o MulAdd(Tail(N), c, v \div Base)

RECURSIVE DivRem(_, _, _)
\* quotient and remainder of (r * Base^Len(N) + N) by d, for r < d
DivRem(N, d, r) ==
    IF N = <<>> THEN [q |-> <<>>, r |-> r]
    ELSE LET v == r * Base + N[Len(N)]
             lower == DivRem(SubSeq(N, 1, Len(N) - 1), d, v % d)
         IN  [q |-> lower.q \o <<v \div d>>, r |-> lower.r]

RECURSIVE BitLen(_)
BitLen(n) == IF n = 0 THEN 0 ELSE 1 + BitLen(n \div 2)

BigBitLen(N) ==
    LET T == Trim(N)
    IN  IF T = <<>> THEN 0 ELSE 8 * (Len(T) - 1) + BitLen(T[Len(T)])

\* N * 2^s
ShiftLeft(N, s) == [i \in 1..(s \div 8) |-> 0] \o MulAdd(N, Pow2(s % 8), 0)

\* N div 2^t
ShiftRight(N, t) ==
    IF t \div 8 >= Len(N) THEN <<>>
    ELSE Trim(DivRem(SubSeq(N, (t \div 8) + 1, Len(N)), Pow2(t % 8), 0).q)

\* N mod 2^t # 0
LowBitsSet(N, t) ==
    \/ \E i \in 1..(t \div 8) : i <= Len(N) /\ N[i] # 0
    \/ (t \div 8) + 1 <= Len(N) /\ N[(t \div 8) + 1] % Pow2(t % 8) # 0

\* bit i of N, bit 0 the least significant
BitAt(N, i) ==
    IF (i \div 8) + 1 > Len(N) THEN 0
    ELSE (N[(i \div 8) + 1] \div Pow2(i % 8)) % 2

\* (N + something in [0, 1) that is positive iff sticky) / 2^t rounded to the
\* nearest integer, a tie going to the even one
RoundShift(N, t, sticky) ==
    IF t = 0 THEN Trim(N)
    ELSE LET whole == ShiftRight(N, t)
             up == /\ BitAt(N, t - 1) = 1
                   /\ \/ sticky
                      \/ LowBitsSet(N, t - 1)
                      \/ BitAt(N, t) = 1
         IN  IF up THEN MulAdd(whole, 1, 1) ELSE whole

RECURSIVE ShiftUp(_, _)
\* the least j >= 0 with a * 2^j >= b, for a > 0
ShiftUp(a, b) == IF a >= b THEN 0 ELSE 1 + ShiftUp(2 * a, b)

RECURSIVE ShiftDown(_, _)
\* the greatest k >= 0 with b * 2^k <= a, for a >= b > 0
ShiftDown(a, b) == IF 2 * b > a THEN 0 ELSE 1 + ShiftDown(a, 2 * b)

\* int / int (true division) for p >= 0 and d > 0: the float nearest to the
\* exact quotient.  With 2^k <= p / d < 2^(k+1) the quotient of p * 2^s by d
\* for s = Precision - k has Precision + 1 bits, the last one the rounding bit.
truediv(p, d) ==
    IF p = 0 THEN [m |-> <<>>, e |-> 0]
    ELSE LET k == IF p >= d THEN ShiftDown(p, d) ELSE 0 - ShiftUp(p, d)
             s == Precision - k
             dv == DivRem(ShiftLeft(Nat2Big(p), s), d, 0)
         IN  [m |-> RoundShift(dv.q, 1, dv.r # 0), e |-> 1 - s]

\* float * 100: the exact product rounded to Precision bits
mul100(x) ==
    LET N == MulAdd(x.m, 100, 0)
        t == IF BigBitLen(N) > Precision THEN BigBitLen(N) - Precision ELSE 0
    IN  [m |-> RoundShift(N, t, FALSE), e |-> x.e + t]

\* the number of tenths f"{x:.1f}" shows: the exact value of x * 10
\* rounded to an integer, a tie going to the even one
TenthsOf(x) ==
    LET Y == MulAdd(x.m, 10, 0)
    IN  IF x.e >= 0 THEN Big2Nat(ShiftLeft(Y, x.e))
        ELSE Big2Nat(RoundShift(Y, 0 - x.e, FALSE))

\* f"{x:.1f}" for a float x >= 0
Format1f(x) ==
    LET t == TenthsOf(x) IN str(t \div 10) \o <<".">> \o str(t % 10)

\* lines 203-213 of show_current_track: the three strings of the progress line
ProgressLine(progress_ms, duration_ms) ==
    LET progress_percent == mul100(truediv(progress_ms, duration_ms))
        progress_sec == progress_ms \div 1000
        duration_sec == duration_ms \div 1000
    IN  [progress_str |-> str(progress_sec \div 60) \o <<":">>
                            \o Format02d(progress_sec % 60),
         duration_str |-> str(duration_sec \div 60) \o <<":">>
                            \o Format02d(duration_sec % 60),
         percent_str |-> Format1f(progress_percent)]

(***************************************************************************)
(* Python values.  None and dicts are records with a type field; the keys  *)
(* of a dict are its other fields, so a missing key is a missing field.    *)
(* Every blocking operation (an adapter call, console.input, time.sleep)   *)
(* has an outcome: it returns a value, raises an Exception (an adapter or  *)
(* network error, EOFError on a closed console) or raises                  *)
(* KeyboardInterrupt, which `except Exception` does not catch.             *)
(***************************************************************************)
None == [type |-> "None"]
EmptyDict == [type |-> "dict"]

HasKey(d, key) == key \in DOMAIN d

\* bool(v) of None or a dict: an empty dict is false
Truthy(v) == v.type = "dict" /\ DOMAIN v # {"type"}

Ok(v) == [kind |-> "ok", value |-> v]
RaisesException == [kind |-> "Exception"]
RaisesKeyboardInterrupt == [kind |-> "KeyboardInterrupt"]

Strings(chars, n) == UNION {[1..k -> chars] : k \in 0..n}

\* what console.input can produce at a prompt
InputOutcomes(lines) ==
    {Ok(line) : line \in lines} \cup {RaisesException, RaisesKeyboardInterrupt}

MenuChars == {"0", "1", "2", "3", "4", "5", "6", "7", "8", " "}
MenuLines == Strings(MenuChars, MaxMenuLen)

InputChars == {"0", "1", "2", "a", "ar1", "sup2"}
\* the lines typed at a handler's prompt: short ones, and ones that start
\* with a long run of zeros
InputLines ==
    Strings(InputChars, MaxInputLen)
        \cup {<<"zeros">> \o s : s \in Strings(InputChars, MaxInputLen - 1)}

QueryLines == {<<>>, <<"a">>}

\* outcomes of an adapter call that returns nothing (pause, start, next, ...)
CommandOutcomes == {Ok(None), RaisesException, RaisesKeyboardInterrupt}

\* outcomes of time.sleep
SleepOutcomes == {Ok(None), RaisesKeyboardInterrupt}

(***************************************************************************)
(* The remote service behind the adapter.                                  *)
(***************************************************************************)
TrackAt(i) ==
    [type |-> "dict", uri |-> <<"spotify:track", 100 + i>>,
     name |-> <<"t">> \o str(i),
     artists |-> <<[type |-> "dict", name |-> <<"x">>],
                   [type |-> "dict", name |-> <<"y">>]>>,
     album |-> [type |-> "dict", name |-> <<"l">> \o str(i)],
     duration_ms |-> 200000]

PlaylistAt(i) ==
    [type |-> "dict", uri |-> <<"spotify:playlist", 200 + i>>,
     name |-> <<"p">> \o str(i),
     tracks |-> [type |-> "dict", total |-> i]]

Min(a, b) == IF a <= b THEN a ELSE b

\* sp.search(q, limit) when the service holds avail matching tracks: the
\* first page, of at most limit items
search(avail, limit) ==
    [type |-> "dict",
     tracks |-> [type |-> "dict",
                 items |-> [i \in 1..Min(avail, limit) |-> TrackAt(i)]]]

\* the page size of sp.current_user_playlists() when the caller passes none
DefaultPlaylistLimit == 50

\* sp.current_user_playlists(limit) when the user has avail playlists
current_user_playlists(avail, limit) ==
    [type |-> "dict", items |-> [i \in 1..Min(avail, limit) |-> PlaylistAt(i)]]

\* what the service can answer to a listing request: a count of items it
\* holds, a response without the expected keys, or a failure
ListingOutcomes ==
    {[kind |-> "ok", avail |-> n] : n \in 0..MaxAvail}
        \cup {[kind |-> "malformed"], RaisesException, RaisesKeyboardInterrupt}

ProgressValues ==
    {0, 1, 3, 999, 1000, 59999, 60000, 65000, 200000, 599999, 600000}
DurationValues ==
    {0, 1, 400, 1000, 2000, 60000, 200000, 599999, 600000}

BasePlayback ==
    [type |-> "dict", is_playing |-> TRUE, progress_ms |-> 65000,
     item |-> TrackAt(1), shuffle_state |-> FALSE, repeat_state |-> "off",
     device |-> [type |-> "dict", volume_percent |-> 50]]

\* a playback state without the is_playing and device keys
PartialPlayback ==
    [type |-> "dict", progress_ms |-> 65000, item |-> TrackAt(1)]

\* the playback states that differ in what toggle_playback and
\* adjust_volume read
DevicePlaybacks ==
    {[BasePlayback EXCEPT !.is_playing = b, !.device.volume_percent = v] :
        b \in BOOLEAN, v \in {0, 100}}
        \cup {None, EmptyDict, PartialPlayback}

\* the playback states that differ in what show_current_track reads
TrackPlaybacks ==
    {[BasePlayback EXCEPT !.progress_ms = pr, !.item.duration_ms = du,
                          !.shuffle_state = sh, !.repeat_state = rp] :
        pr \in ProgressValues, du \in DurationValues, sh \in BOOLEAN,
        rp \in {"off", "track", "context"}}
        \cup {[BasePlayback EXCEPT !.item = None], None, EmptyDict,
              [type |-> "dict", item |-> TrackAt(1)],
              [type |-> "dict", item |-> TrackAt(1), progress_ms |-> 65000]}

PlaybackOutcomes(states) ==
    {Ok(st) : st \in states} \cup {RaisesException, RaisesKeyboardInterrupt}

(***************************************************************************)
(* The run of a handler: the adapter calls it issued (with their           *)
(* outcomes), the lines it read from the console, the messages it printed  *)
(* and how it ended: exc is "none" when it returned, else the exception    *)
(* that leaves it.                                                         *)
(***************************************************************************)
Begin == [calls |-> <<>>, reads |-> <<>>, out |-> <<>>, exc |-> "none"]

NoArgs == [type |-> "dict"]

\* r, then the adapter call op(args) with the given outcome
Call(r, op, args, outcome) ==
    [r EXCEPT !.calls = Append(@, [op |-> op, args |-> args,
                                   result |-> outcome]),
              !.exc = IF outcome.kind = "ok" THEN "none" ELSE outcome.kind]

\* r, then console.input(prompt) with the given outcome
Input(r, prompt, outcome) ==
    [r EXCEPT !.reads = Append(@, [prompt |-> prompt, result |-> outcome]),
              !.exc = IF outcome.kind = "ok" THEN "none" ELSE outcome.kind]

\* r, then console.print of a message
Say(r, m) == [r EXCEPT !.out = Append(@, m)]

\* r, then a statement that raises an Exception (KeyError, ValueError, ...)
Raise(r) == [r EXCEPT !.exc = "Exception"]

\* r, then time.sleep with the given outcome
sleep(r, outcome) ==
    IF outcome.kind = "ok" THEN r ELSE [r EXCEPT !.exc = outcome.kind]

ErrorMessage == [msg |-> "Error"]

\* ExceptSleep when the except clause does not match the raised exception
ExceptSleepUncaught(r, sleepOutcome) == r

\* `except Exception as e: console.print(Error); time.sleep(2)` around a
\* try block that ran as r
ExceptSleep(r, sleepOutcome) ==
    IF r.exc = "Exception"
    THEN sleep(Say([r EXCEPT !.exc = "none"], ErrorMessage), sleepOutcome)
    ELSE r

RECURSIVE Join(_, _)
\* sep.join(parts)
Join(sep, parts) ==
    IF parts = <<>> THEN <<>>
    ELSE IF Len(parts) = 1 THEN parts[1]
    ELSE parts[1] \o sep \o Join(sep, Tail(parts))

(***************************************************************************)
(* The command handlers, src/main.py lines 61-259.  env holds the outcome  *)
(* of each blocking operation the handler can reach.                       *)
(***************************************************************************)
\* toggle_playback with the test on is_playing inverted
toggle_playback_inverted(env) ==
    LET r1 == Call(Begin, "current_playback", NoArgs, env.playback)
        status == env.playback.value
        try ==
            IF r1.exc # "none" THEN r1
            ELSE IF Truthy(status) /\ ~HasKey(status, "is_playing")
            THEN Raise(r1)
            ELSE IF Truthy(status) /\ ~status.is_playing
            THEN LET r2 == Call(r1, "pause_playback", NoArgs, env.command)
                 IN  IF r2.exc # "none" THEN r2
                     ELSE Say(r2, [msg |-> "Playback paused"])
            ELSE LET r2 == Call(r1, "start_playback", NoArgs, env.command)
                 IN  IF r2.exc # "none" THEN r2
                     ELSE Say(r2, [msg |-> "Playback started"])
        caught == IF try.exc = "Exception"
                  THEN Say([try EXCEPT !.exc = "none"], ErrorMessage)
                  ELSE try
    IN  IF caught.exc # "none" THEN caught ELSE sleep(caught, env.sleep)

toggle_playback(env) ==
    LET r1 == Call(Begin, "current_playback", NoArgs, env.playback)
        status == env.playback.value
        try ==
            IF r1.exc # "none" THEN r1
            ELSE IF Truthy(status) /\ ~HasKey(status, "is_playing")
            THEN Raise(r1)
            ELSE IF Truthy(status) /\ status.is_playing
            THEN LET r2 == Call(r1, "pause_playback", NoArgs, env.command)
                 IN  IF r2.exc # "none" THEN r2
                     ELSE Say(r2, [msg |-> "Playback paused"])
            ELSE LET r2 == Call(r1, "start_playback", NoArgs, env.command)
                 IN  IF r2.exc # "none" THEN r2
                     ELSE Say(r2, [msg |-> "Playback started"])
        caught == IF try.exc = "Exception"
                  THEN Say([try EXCEPT !.exc = "none"], ErrorMessage)
                  ELSE try
    IN  IF caught.exc # "none" THEN caught ELSE sleep(caught, env.sleep)

next_track(env) ==
    LET r1 == Call(Begin, "next_track", NoArgs, env.command)
        try == IF r1.exc # "none" THEN r1
               ELSE Say(r1, [msg |-> "Skipped to next track"])
        caught == IF try.exc = "Exception"
                  THEN Say([try EXCEPT !.exc = "none"], ErrorMessage)
                  ELSE try
    IN  IF caught.exc # "none" THEN caught ELSE sleep(caught, env.sleep)

previous_track(env) ==
    LET r1 == Call(Begin, "previous_track", NoArgs, env.command)
        try == IF r1.exc # "none" THEN r1
               ELSE Say(r1, [msg |-> "Returned to previous track"])
        caught == IF try.exc = "Exception"
                  THEN Say([try EXCEPT !.exc = "none"], ErrorMessage)
                  ELSE try
    IN  IF caught.exc # "none" THEN caught ELSE sleep(caught, env.sleep)

\* list[i] of Python: indexed from 0, a negative i counts from the end
Item(list, i) == IF i < 0 THEN list[Len(list) + i + 1] ELSE list[i + 1]

\* a selection range that starts at 0
FirstChoiceZero == 1 - 1

\* the least number a selection may have (lines 135 and 174)
FirstChoice == 1

\* the limit search_track passes to sp.search
SearchLimit == 10

search_track(env) ==
    LET r1 == Input(Begin, "Enter track name or artist", env.query)
        query == env.query.value
        response == IF env.search.kind = "ok"
                    THEN Ok(search(env.search.avail, SearchLimit))
                    ELSE IF env.search.kind = "malformed" THEN Ok(EmptyDict)
                    ELSE env.search
        r2 == Call(r1, "search",
                   [type |-> "dict", q |-> query, limit |-> SearchLimit],
                   response)
        results == response.value
        tracks == results.tracks.items
        table == [msg |-> "Results",
                  rows |-> [i \in 1..Len(tracks) |->
                              <<str(i), tracks[i].name,
                                Join(<<",", " ">>,
                                     [a \in 1..Len(tracks[i].artists) |->
                                        tracks[i].artists[a].name]),
                                tracks[i].album.name>>]]
        r3 == Input(Say(r2, table), "Choose a track to play (1-10)",
                    env.choice)
        choice == env.choice.value
        try ==
            IF r2.exc # "none" THEN r2
            ELSE IF ~HasKey(results, "tracks") THEN Raise(r2)
            ELSE IF tracks = <<>>
            THEN sleep(Say(r2, [msg |-> "No tracks found"]), env.sleep)
            ELSE IF r3.exc # "none" THEN r3
            ELSE IF ~isdigit(choice) THEN r3
            ELSE IF int(choice) < 0 THEN Raise(r3)
            ELSE IF FirstChoice <= int(choice) /\ int(choice) <= Len(tracks)
            THEN LET track_uri == Item(tracks, int(choice) - 1).uri
                     r4 == Call(r3, "start_playback",
                                [type |-> "dict", uris |-> <<track_uri>>],
                                env.command)
                 IN  IF r4.exc # "none" THEN r4
                     ELSE sleep(Say(r4, [msg |-> "Now playing",
                                         name |-> Item(tracks,
                                                   int(choice) - 1).name]),
                                env.sleep)
            ELSE r3
    IN  IF r1.exc # "none" THEN r1
        ELSE IF query = <<>> THEN r1
        ELSE ExceptSleep(try, env.sleep)

list_playlists(env) ==
    LET response == IF env.listing.kind = "ok"
                    THEN Ok(current_user_playlists(env.listing.avail,
                                                   DefaultPlaylistLimit))
                    ELSE IF env.listing.kind = "malformed" THEN Ok(EmptyDict)
                    ELSE env.listing
        r1 == Call(Begin, "current_user_playlists", NoArgs, response)
        playlists == response.value
        table == [msg |-> "Your Playlists",
                  rows |-> [i \in 1..Len(playlists.items) |->
                              <<str(i), playlists.items[i].name,
                                str(playlists.items[i].tracks.total)>>]]
        r2 == Input(Say(r1, table), "Choose a playlist to play (1-10)",
                    env.choice)
        choice == env.choice.value
        try ==
            IF r1.exc # "none" THEN r1
            ELSE IF ~HasKey(playlists, "items") THEN Raise(r1)
            ELSE IF playlists.items = <<>>
            THEN sleep(Say(r1, [msg |-> "No playlists found"]), env.sleep)
            ELSE IF r2.exc # "none" THEN r2
            ELSE IF ~isdigit(choice) THEN r2
            ELSE IF int(choice) < 0 THEN Raise(r2)
            ELSE IF /\ FirstChoice <= int(choice)
                    /\ int(choice) <= Len(playlists.items)
            THEN LET playlist_uri == Item(playlists.items,
                                          int(choice) - 1).uri
                     r3 == Call(r2, "start_playback",
                                [type |-> "dict",
                                 context_uri |-> playlist_uri],
                                env.command)
                 IN  IF r3.exc # "none" THEN r3
                     ELSE sleep(Say(r3, [msg |-> "Now playing playlist",
                                         name |-> Item(playlists.items,
                                                   int(choice) - 1).name]),
                                env.sleep)
            ELSE r2
    IN  ExceptSleep(try, env.sleep)

show_current_track(env) ==
    LET r1 == Call(Begin, "current_playback", NoArgs, env.playback)
        current == env.playback.value
        track == current.item
        artists == Join(<<",", " ">>,
                        [a \in 1..Len(track.artists) |-> track.artists[a].name])
        r2 == Say(Say(Say(Say(r1, [msg |-> "Now Playing"]),
                          [msg |-> "Track", text |-> track.name]),
                      [msg |-> "Artist", text |-> artists]),
                  [msg |-> "Album", text |-> track.album.name])
        line == ProgressLine(current.progress_ms, track.duration_ms)
        r3 == Say(r2, [msg |-> "Progress",
                       progress_str |-> line.progress_str,
                       duration_str |-> line.duration_str,
                       percent_str |-> line.percent_str])
        shuffle == HasKey(current, "shuffle_state") /\ current.shuffle_state
        r4 == Say(r3, [msg |-> "Shuffle",
                       text |-> IF shuffle THEN "On" ELSE "Off"])
        repeat_state == IF HasKey(current, "repeat_state")
                        THEN current.repeat_state ELSE "off"
        r5 == IF repeat_state = "off"
              THEN Say(r4, [msg |-> "Repeat", text |-> "Off"])
              ELSE IF repeat_state = "track"
              THEN Say(r4, [msg |-> "Repeat", text |-> "Track"])
              ELSE IF repeat_state = "context"
              THEN Say(r4, [msg |-> "Repeat", text |-> "Playlist/Album"])
              ELSE r4
        try ==
            IF r1.exc # "none" THEN r1
            ELSE IF \/ ~Truthy(current)
                    \/ ~HasKey(current, "item")
                    \/ ~Truthy(current.item)
            THEN sleep(Say(r1, [msg |-> "No track currently playing"]),
                       env.sleep)
            ELSE IF ~HasKey(current, "progress_ms") THEN Raise(r2)
            ELSE IF track.duration_ms = 0 THEN Raise(r2)
            ELSE Input(r5, "Press Enter to return to menu", env.confirm)
    IN  ExceptSleep(try, env.sleep)

\* a volume range that ends one too high
MaxVolumeOff == 100 + 1

\* the range of volumes adjust_volume accepts
MinVolume == 0
MaxVolume == 100

adjust_volume(env) ==
    LET r1 == Call(Begin, "current_playback", NoArgs, env.playback)
        current == env.playback.value
        r2 == Say(r1, [msg |-> "Current volume",
                       volume |-> current.device.volume_percent])
        r3 == Input(r2, "Enter new volume (0-100)", env.new_volume)
        new_volume == env.new_volume.value
        try ==
            IF r1.exc # "none" THEN r1
            ELSE IF ~Truthy(current)
            THEN sleep(Say(r1, [msg |-> "No active device found"]), env.sleep)
            ELSE IF ~HasKey(current, "device") THEN Raise(r1)
            ELSE IF r3.exc # "none" THEN r3
            ELSE IF ~isdigit(new_volume)
            THEN sleep(Say(r3, [msg |-> "Invalid value"]), env.sleep)
            ELSE IF int(new_volume) < 0 THEN Raise(r3)
            ELSE IF MinVolume <= int(new_volume) /\ int(new_volume) <= MaxVolume
            THEN LET r4 == Call(r3, "volume",
                                [type |-> "dict",
                                 volume_percent |-> int(new_volume)],
                                env.command)
                 IN  IF r4.exc # "none" THEN r4
                     ELSE sleep(Say(r4, [msg |-> "Volume adjusted",
                                         text |-> new_volume]), env.sleep)
            ELSE sleep(Say(r3, [msg |-> "Invalid value"]), env.sleep)
    IN  ExceptSleep(try, env.sleep)

(***************************************************************************)
(* Startup and the menu loop, src/main.py lines 17-59 and 261-295.         *)
(***************************************************************************)
\* os.getenv of a credential: unset, set to the empty string, or set
Str(chars) == [type |-> "str", value |-> chars]
EnvValues == {None, Str(<<>>), Str(<<"a">>)}

\* bool(v) of None or a str
StrTruthy(v) == v.type = "str" /\ v.value # <<>>

\* outcomes of constructing spotipy.Spotify(auth_manager=SpotifyOAuth(...))
ClientOutcomes == {Ok("Spotify"), RaisesException, RaisesKeyboardInterrupt}

\* setup_spotify that stops only when both credentials are missing
setup_spotify_and(id, secret, client) ==
    LET r1 == Call(Begin, "Spotify", NoArgs, client)
    IN  IF ~StrTruthy(id) /\ ~StrTruthy(secret)
        THEN [run |-> [Say(Begin, [msg |-> "Error: Spotify credentials not configured!"])
                         EXCEPT !.exc = "SystemExit"],
              code |-> 1, sp |-> "None"]
        ELSE IF r1.exc = "none"
        THEN [run |-> r1, code |-> 0, sp |-> client.value]
        ELSE IF r1.exc = "Exception"
        THEN [run |-> [Say(r1, [msg |-> "Error authenticating with Spotify"])
                         EXCEPT !.exc = "SystemExit"],
              code |-> 1, sp |-> "None"]
        ELSE [run |-> r1, code |-> 0, sp |-> "None"]

\* setup_spotify: exc is "none" when it returns the client, "SystemExit"
\* with the exit code after sys.exit
setup_spotify(id, secret, client) ==
    LET r1 == Call(Begin, "Spotify", NoArgs, client)
    IN  IF ~StrTruthy(id) \/ ~StrTruthy(secret)
        THEN [run |-> [Say(Begin, [msg |-> "Error: Spotify credentials not configured!"])
                         EXCEPT !.exc = "SystemExit"],
              code |-> 1, sp |-> "None"]
        ELSE IF r1.exc = "none"
        THEN [run |-> r1, code |-> 0, sp |-> client.value]
        ELSE IF r1.exc = "Exception"
        THEN [run |-> [Say(r1, [msg |-> "Error authenticating with Spotify"])
                         EXCEPT !.exc = "SystemExit"],
              code |-> 1, sp |-> "None"]
        ELSE [run |-> r1, code |-> 0, sp |-> "None"]

\* main_try without the KeyboardInterrupt clause: the interrupt leaves main
\* uncaught and the interpreter exits with a failure status
main_try_no_interrupt_clause(exc, code) ==
    IF exc = "none"
    THEN [pc |-> "loop", exit_status |-> <<>>, out |-> <<>>]
    ELSE IF exc = "Exception"
    THEN [pc |-> "exited", exit_status |-> <<0>>,
          out |-> <<[msg |-> "Unexpected error"]>>]
    ELSE [pc |-> "exited", exit_status |-> <<1>>, out |-> <<>>]

\* the try statement of main around setup and the loop: where control goes
\* when the guarded code ends with exc.  SystemExit is no Exception and
\* leaves main; the two handlers print and let main return.
main_try(exc, code) ==
    IF exc = "none"
    THEN [pc |-> "loop", exit_status |-> <<>>, out |-> <<>>]
    ELSE IF exc = "KeyboardInterrupt"
    THEN [pc |-> "exited", exit_status |-> <<0>>,
          out |-> <<[msg |-> "Program interrupted. Goodbye!"]>>]
    ELSE IF exc = "Exception"
    THEN [pc |-> "exited", exit_status |-> <<0>>,
          out |-> <<[msg |-> "Unexpected error"]>>]
    ELSE [pc |-> "exited", exit_status |-> <<code>>, out |-> <<>>]

RECURSIVE lstrip(_)
lstrip(line) ==
    IF line # <<>> /\ line[1] = " " THEN lstrip(Tail(line)) ELSE line

RECURSIVE rstrip(_)
rstrip(line) ==
    IF line # <<>> /\ line[Len(line)] = " "
    THEN rstrip(SubSeq(line, 1, Len(line) - 1)) ELSE line

\* HandlerFor on the stripped line, as option.strip() would match
HandlerForStripped(option) ==
    LET stripped == lstrip(rstrip(option))
    IN  IF stripped = <<"1">> THEN "toggle_playback"
        ELSE IF stripped = <<"2">> THEN "next_track"
        ELSE IF stripped = <<"3">> THEN "previous_track"
        ELSE IF stripped = <<"4">> THEN "search_track"
        ELSE IF stripped = <<"5">> THEN "list_playlists"
        ELSE IF stripped = <<"6">> THEN "show_current_track"
        ELSE IF stripped = <<"7">> THEN "adjust_volume"
        ELSE IF stripped = <<"0">> THEN "exit"
        ELSE "invalid"

\* the if/elif chain of main on the line read at the menu prompt
HandlerFor(option) ==
    IF option = <<"1">> THEN "toggle_playback"
    ELSE IF option = <<"2">> THEN "next_track"
    ELSE IF option = <<"3">> THEN "previous_track"
    ELSE IF option = <<"4">> THEN "search_track"
    ELSE IF option = <<"5">> THEN "list_playlists"
    ELSE IF option = <<"6">> THEN "show_current_track"
    ELSE IF option = <<"7">> THEN "adjust_volume"
    ELSE IF option = <<"0">> THEN "exit"
    ELSE "invalid"

MenuText == <<[msg |-> "===== Spotify CLI Player ====="],
              [msg |-> "Choose an option"]>>

VARIABLES
    pc,             \* "start", "loop" (top of while True), "prompt"
                    \* (display_menu waits for a line), "exited"
    exit_status,    \* <<>> while the process runs, <<code>> once it exited
    client_id,      \* SPOTIFY_CLIENT_ID
    client_secret,  \* SPOTIFY_CLIENT_SECRET
    sp,             \* the client handle, "None" before setup
    prompts,        \* how many times the menu prompt was shown
    option,         \* outcome of the last read at the menu prompt
    handler,        \* the handler the last menu line invoked, or "none"
    calls,          \* adapter calls issued since the last menu prompt
    reads,          \* console lines read by the handler since then
    out,            \* messages on the console since the last console.clear
    raised          \* how the code of the last step ended: "none", "break"
                    \* or the exception that left the handler or setup

vars == <<pc, exit_status, client_id, client_secret, sp, prompts, option,
          handler, calls, reads, out, raised>>

Init ==
    /\ pc = "start"
    /\ exit_status = <<>>
    /\ client_id \in EnvValues
    /\ client_secret \in EnvValues
    /\ sp = "None"
    /\ prompts = 0
    /\ option = [kind |-> "none"]
    /\ handler = "none"
    /\ calls = <<>>
    /\ reads = <<>>
    /\ out = <<>>
    /\ raised = "none"

\* main up to the loop: the greeting and setup_spotify
Setup ==
    /\ pc = "start"
    /\ \E client \in ClientOutcomes :
        LET s == setup_spotify(client_id, client_secret, client)
            m == main_try(s.run.exc, s.code)
        IN  /\ pc' = m.pc
            /\ exit_status' = m.exit_status
            /\ sp' = s.sp
            /\ calls' = s.run.calls
            /\ raised' = s.run.exc
            /\ out' = <<[msg |-> "Starting Spotify CLI Player..."]>>
                        \o s.run.out \o m.out
    /\ UNCHANGED <<client_id, client_secret, prompts, option, handler, reads>>

\* display_menu up to its console.input: clear the console, print the menu
DisplayMenu ==
    /\ pc = "loop"
    /\ prompts < MaxPrompts
    /\ pc' = "prompt"
    /\ prompts' = prompts + 1
    /\ out' = MenuText
    /\ option' = [kind |-> "none"]
    /\ handler' = "none"
    /\ calls' = <<>>
    /\ reads' = <<>>
    /\ raised' = "none"
    /\ UNCHANGED <<exit_status, client_id, client_secret, sp>>

\* the rest of a loop iteration once the line `line` was read and the
\* invoked handler ran as r
Dispatch(line, name, r) ==
    LET m == main_try(r.exc, 0)
    IN  /\ option' = Ok(line)
        /\ handler' = name
        /\ calls' = r.calls
        /\ reads' = r.reads
        /\ out' = out \o r.out \o m.out
        /\ raised' = r.exc
        /\ pc' = m.pc
        /\ exit_status' = m.exit_status
        /\ UNCHANGED <<client_id, client_secret, sp, prompts>>

TogglePlayback ==
    /\ pc = "prompt"
    /\ \E line \in MenuLines :
        /\ HandlerFor(line) = "toggle_playback"
        /\ \E env \in [playback : PlaybackOutcomes(DevicePlaybacks),
                       command : CommandOutcomes, sleep : SleepOutcomes] :
              Dispatch(line, "toggle_playback", toggle_playback(env))

NextTrack ==
    /\ pc = "prompt"
    /\ \E line \in MenuLines :
        /\ HandlerFor(line) = "next_track"
        /\ \E env \in [command : CommandOutcomes, sleep : SleepOutcomes] :
              Dispatch(line, "next_track", next_track(env))

PreviousTrack ==
    /\ pc = "prompt"
    /\ \E line \in MenuLines :
        /\ HandlerFor(line) = "previous_track"
        /\ \E env \in [command : CommandOutcomes, sleep : SleepOutcomes] :
              Dispatch(line, "previous_track", previous_track(env))

SearchTrack ==
    /\ pc = "prompt"
    /\ \E line \in MenuLines :
        /\ HandlerFor(line) = "search_track"
        /\ \E env \in [query : InputOutcomes(QueryLines),
                       search : ListingOutcomes,
                       choice : InputOutcomes(InputLines),
                       command : CommandOutcomes, sleep : SleepOutcomes] :
              Dispatch(line, "search_track", search_track(env))

ListPlaylists ==
    /\ pc = "prompt"
    /\ \E line \in MenuLines :
        /\ HandlerFor(line) = "list_playlists"
        /\ \E env \in [listing : ListingOutcomes,
                       choice : InputOutcomes(InputLines),
                       command : CommandOutcomes, sleep : SleepOutcomes] :
              Dispatch(line, "list_playlists", list_playlists(env))

ShowCurrentTrack ==
    /\ pc = "prompt"
    /\ \E line \in MenuLines :
        /\ HandlerFor(line) = "show_current_track"
        /\ \E env \in [playback : PlaybackOutcomes(TrackPlaybacks),
                       confirm : InputOutcomes({<<>>}),
                       sleep : SleepOutcomes] :
              Dispatch(line, "show_current_track", show_current_track(env))

AdjustVolume ==
    /\ pc = "prompt"
    /\ \E line \in MenuLines :
        /\ HandlerFor(line) = "adjust_volume"
        /\ \E env \in [playback : PlaybackOutcomes(DevicePlaybacks),
                       new_volume : InputOutcomes(InputLines),
                       command : CommandOutcomes, sleep : SleepOutcomes] :
              Dispatch(line, "adjust_volume", adjust_volume(env))

\* the else branch of main: the message and time.sleep(1)
invalid_option(sleepOutcome) ==
    sleep(Say(Begin, [msg |-> "Invalid option. Please try again."]),
          sleepOutcome)

\* option "0": the goodbye and the break out of the loop; main returns
Exit ==
    /\ pc = "prompt"
    /\ \E line \in MenuLines :
        /\ HandlerFor(line) = "exit"
        /\ option' = Ok(line)
    /\ out' = Append(out, [msg |-> "Exiting Spotify CLI Player. Goodbye!"])
    /\ raised' = "break"
    /\ pc' = "exited"
    /\ exit_status' = <<0>>
    /\ UNCHANGED <<client_id, client_secret, sp, prompts, handler, calls,
                   reads>>

InvalidOption ==
    /\ pc = "prompt"
    /\ \E line \in MenuLines :
        /\ HandlerFor(line) = "invalid"
        /\ \E sleepOutcome \in SleepOutcomes :
              Dispatch(line, "none", invalid_option(sleepOutcome))

\* console.input of display_menu raises: EOFError or another Exception on a
\* closed console, KeyboardInterrupt on an interrupt
MenuInputRaises ==
    /\ pc = "prompt"
    /\ \E outcome \in {RaisesException, RaisesKeyboardInterrupt} :
        LET m == main_try(outcome.kind, 0)
        IN  /\ option' = outcome
            /\ out' = out \o m.out
            /\ raised' = outcome.kind
            /\ pc' = m.pc
            /\ exit_status' = m.exit_status
    /\ UNCHANGED <<client_id, client_secret, sp, prompts, handler, calls,
                   reads>>

Next ==
    \/ Setup
    \/ DisplayMenu
    \/ TogglePlayback
    \/ NextTrack
    \/ PreviousTrack
    \/ SearchTrack
    \/ ListPlaylists
    \/ ShowCurrentTrack
    \/ AdjustVolume
    \/ Exit
    \/ InvalidOption
    \/ MenuInputRaises

Spec == Init /\ [][Next]_vars

(***************************************************************************)
(* Vocabulary of the properties.                                           *)
(***************************************************************************)
CallsOf(op) == SelectSeq(calls, LAMBDA c : c.op = op)

\* the lines read successfully at the handler prompt `prompt`
LinesRead(prompt) ==
    SelectSeq(reads, LAMBDA r : r.prompt = prompt /\ r.result.kind = "ok")

\* the string s is a non-empty run of decimal digits that writes the number
\* v, leading zeros allowed
Denotes(s, v) ==
    LET d == str(v)
        lead == Len(s) - Len(d)
    IN  /\ lead >= 0
        /\ \A i \in 1..Len(s) :
              /\ DecimalValue(s[i]) >= 0
              /\ IF i <= lead THEN DecimalValue(s[i]) = 0
                 ELSE AsciiDigits[DecimalValue(s[i]) + 1] = d[i - lead]

\* int() converts the string s: it has no more digits than the limit
WithinDigitLimit(s) == CharCount(s, 1) <= int_max_str_digits

AdapterCallFailed ==
    /\ handler # "none"
    /\ \E i \in 1..Len(calls) : calls[i].result.kind = "Exception"

\* C1: in every command handler, when an adapter call fails with an error
\* (and no interrupt arrives), the handler prints the inline error message
\* and returns, the process keeps running, and the dispatcher is back at the
\* top of its loop, where the menu prompt is shown next.
C1_AdapterFailureIsRecoverable ==
    (AdapterCallFailed /\ raised # "KeyboardInterrupt") =>
        /\ raised = "none"
        /\ out[Len(out)] = ErrorMessage
        /\ pc = "loop"
        /\ exit_status = <<>>
        /\ prompts < MaxPrompts => ENABLED DisplayMenu

C1_Witness ==
    /\ handler = "adjust_volume"
    /\ Len(calls) = 2
    /\ calls[2].op = "volume"
    /\ calls[2].result.kind = "Exception"
    /\ out[Len(out)] = ErrorMessage
    /\ pc = "loop"

ValidCodes == {<<AsciiDigits[i]>> : i \in 1..8}

\* C2: a menu line that is not exactly one of "0".."7" gets the
\* invalid-option message and a new prompt; no handler runs, no adapter call
\* is issued and nothing else is read from the console.
C2_InvalidOptionReprompts ==
    (option.kind = "ok" /\ option.value \notin ValidCodes) =>
        /\ handler = "none"
        /\ calls = <<>>
        /\ reads = <<>>
        /\ out[Len(out) - (IF raised = "none" THEN 0 ELSE 1)]
             = [msg |-> "Invalid option. Please try again."]
        /\ raised \in {"none", "KeyboardInterrupt"}
        /\ raised = "none" => pc = "loop" /\ exit_status = <<>>

C2_Witness ==
    /\ option = Ok(<<"1", " ">>)
    /\ handler = "none"
    /\ pc = "loop"

\* the list the handler fetched and offered for selection
SelectionList ==
    IF /\ handler = "search_track"
       /\ Len(calls) >= 1
       /\ calls[1].result.kind = "ok"
       /\ HasKey(calls[1].result.value, "tracks")
    THEN calls[1].result.value.tracks.items
    ELSE IF /\ handler = "list_playlists"
            /\ Len(calls) >= 1
            /\ calls[1].result.kind = "ok"
            /\ HasKey(calls[1].result.value, "items")
    THEN calls[1].result.value.items
    ELSE <<>>

Selections ==
    LinesRead(IF handler = "search_track"
              THEN "Choose a track to play (1-10)"
              ELSE "Choose a playlist to play (1-10)")

\* the arguments of the playback call that plays `item`
Target(item) ==
    IF handler = "search_track"
    THEN [type |-> "dict", uris |-> <<item.uri>>]
    ELSE [type |-> "dict", context_uri |-> item.uri]

\* the selection read denotes the number v
Selected(v) ==
    Len(Selections) = 1 /\ Denotes(Selections[1].result.value, v)

\* the selection read denotes the number v in no more digits than int()
\* converts
SelectedWithinLimit(v) ==
    Selected(v) /\ WithinDigitLimit(Selections[1].result.value)

\* C3 as stated: in Search Track and List Playlists, with a fetched list of N
\* items, a start-playback call is issued iff the line read at the selection
\* prompt is a string of decimal digits with value in 1..N, and the call
\* then targets exactly the item at that index (a one-element URI list for a
\* track, a context URI for a playlist); any other input issues no call.
C3_AnyIntegerStringSelects ==
    handler \in {"search_track", "list_playlists"} =>
        LET N == Len(SelectionList)
            starts == CallsOf("start_playback")
        IN  /\ Len(starts) <= 1
            /\ Len(starts) = 1 <=> \E v \in 1..N : Selected(v)
            /\ \A v \in 1..N :
                  Selected(v) => starts[1].args = Target(SelectionList[v])

\* C3 amended: a start-playback call is issued iff the line read at the
\* selection prompt is a string of decimal digits, of no more digits than
\* int() converts, with value in 1..N, and the call then targets exactly the
\* item at that index; any other input, a longer digit string included,
\* issues no call.
C3_SelectionStartsPlayback ==
    handler \in {"search_track", "list_playlists"} =>
        LET N == Len(SelectionList)
            starts == CallsOf("start_playback")
        IN  /\ Len(starts) <= 1
            /\ Len(starts) = 1 <=> \E v \in 1..N : SelectedWithinLimit(v)
            /\ \A v \in 1..N :
                  SelectedWithinLimit(v) =>
                      starts[1].args = Target(SelectionList[v])

C3_Witness ==
    /\ handler = "search_track"
    /\ Len(SelectionList) = SearchLimit
    /\ Selected(SearchLimit)
    /\ CallsOf("start_playback")
         = <<[op |-> "start_playback",
              args |-> [type |-> "dict",
                        uris |-> <<TrackAt(SearchLimit).uri>>],
              result |-> Ok(None)]>>

\* adjust_volume fetched a playback state (an active device)
DeviceFetched ==
    /\ handler = "adjust_volume"
    /\ Len(calls) >= 1
    /\ calls[1].result.kind = "ok"
    /\ Truthy(calls[1].result.value)

VolumeEntered(v) ==
    LET lines == LinesRead("Enter new volume (0-100)")
    IN  Len(lines) = 1 /\ Denotes(lines[1].result.value, v)

\* the volume entered denotes the number v in no more digits than int()
\* converts
VolumeEnteredWithinLimit(v) ==
    /\ VolumeEntered(v)
    /\ WithinDigitLimit(LinesRead("Enter new volume (0-100)")[1].result.value)

\* C4 as stated: Adjust Volume issues a volume-set call iff a playback state
\* was fetched and the line entered is a string of decimal digits with value
\* in 0..100, and the call carries exactly that value.
C4_AnyIntegerStringSetsVolume ==
    handler = "adjust_volume" =>
        LET sets == CallsOf("volume")
        IN  /\ Len(sets) <= 1
            /\ Len(sets) = 1 <=>
                  (DeviceFetched /\ \E v \in 0..100 : VolumeEntered(v))
            /\ \A v \in 0..100 :
                  (DeviceFetched /\ VolumeEntered(v)) =>
                      sets[1].args = [type |-> "dict", volume_percent |-> v]

\* C4 amended: Adjust Volume issues a volume-set call iff a playback state
\* was fetched and the line entered is a string of decimal digits, of no
\* more digits than int() converts, with value in 0..100, and the call
\* carries exactly that value.
C4_VolumeSetOnlyInRange ==
    handler = "adjust_volume" =>
        LET sets == CallsOf("volume")
        IN  /\ Len(sets) <= 1
            /\ Len(sets) = 1 <=>
                  (DeviceFetched
                     /\ \E v \in 0..100 : VolumeEnteredWithinLimit(v))
            /\ \A v \in 0..100 :
                  (DeviceFetched /\ VolumeEnteredWithinLimit(v)) =>
                      sets[1].args = [type |-> "dict", volume_percent |-> v]

C4_Witness ==
    /\ handler = "adjust_volume"
    /\ VolumeEntered(100)
    /\ Len(CallsOf("volume")) = 1
    /\ CallsOf("volume")[1].args.volume_percent = 100

\* the transport calls of the last handler
TransportCalls ==
    SelectSeq(calls, LAMBDA c : c.op \in {"pause_playback", "start_playback"})

\* C5: Toggle Playback, after a successful fetch of the playback state,
\* issues exactly one transport call: pause when the state has is_playing
\* true, start when is_playing is false or there is no playback state; in
\* no case does one invocation issue both.
C5_ToggleIssuesOneTransportCall ==
    (handler = "toggle_playback" /\ calls[1].result.kind = "ok") =>
        LET status == calls[1].result.value
            ops == [i \in 1..Len(TransportCalls) |-> TransportCalls[i].op]
        IN  /\ Len(ops) <= 1
            /\ (Truthy(status) /\ HasKey(status, "is_playing")
                    /\ status.is_playing) => ops = <<"pause_playback">>
            /\ (Truthy(status) /\ HasKey(status, "is_playing")
                    /\ ~status.is_playing) => ops = <<"start_playback">>
            /\ ~Truthy(status) => ops = <<"start_playback">>

C5_Witness ==
    /\ handler = "toggle_playback"
    /\ Len(calls) = 2
    /\ calls[1].result.kind = "ok"
    /\ Truthy(calls[1].result.value)
    /\ HasKey(calls[1].result.value, "is_playing")
    /\ calls[1].result.value.is_playing
    /\ calls[2].op = "pause_playback"

ClientFailed ==
    /\ Len(calls) >= 1
    /\ calls[1].op = "Spotify"
    /\ calls[1].result.kind = "Exception"

\* C6: when the identity token or the secret is unset or empty, or the
\* construction of the client raises an error, the process ends with exit
\* status 1, the menu is never shown and no handler runs.
C6_StartupFailureExitsWithOne ==
    (/\ pc # "start"
     /\ \/ ~StrTruthy(client_id)
        \/ ~StrTruthy(client_secret)
        \/ ClientFailed) =>
        /\ pc = "exited"
        /\ exit_status = <<1>>
        /\ prompts = 0
        /\ handler = "none"
        /\ sp = "None"

C6_Witness ==
    /\ client_id = Str(<<>>)
    /\ StrTruthy(client_secret)
    /\ pc = "exited"
    /\ exit_status = <<1>>

\* C7: reading "0" at the menu prompt, or an interrupt at the prompt or
\* inside a handler, ends the dispatcher with exit status 0; once it has
\* ended nothing changes any more: no prompt, no handler, no adapter call.
C7_ExitAndInterruptTerminate ==
    /\ []((option = Ok(<<"0">>) \/ raised = "KeyboardInterrupt") =>
            (pc = "exited" /\ exit_status = <<0>>))
    /\ [][pc = "exited" => UNCHANGED vars]_vars

C7_Witness ==
    /\ handler = "search_track"
    /\ Len(calls) = 1
    /\ calls[1].result.kind = "KeyboardInterrupt"
    /\ raised = "KeyboardInterrupt"
    /\ pc = "exited"
    /\ exit_status = <<0>>

\* C8: once the menu loop is entered no error ends the session: the
\* dispatcher ends only on the exit option or an interrupt.
C8_NoErrorEndsSession ==
    (prompts >= 1 /\ pc = "exited") => raised \in {"break", "KeyboardInterrupt"}

\* the position of the character c in s, 0 when absent
Find(s, c) == IndexOf(c, s, 1)

\* the text is <minutes>:<two digits>, for the truncated seconds of ms
IsMinutesSeconds(text, ms) ==
    LET colon == Find(text, ":")
        minutes == SubSeq(text, 1, colon - 1)
        seconds == SubSeq(text, colon + 1, Len(text))
    IN  /\ colon > 1
        /\ Len(seconds) = 2
        /\ int(minutes) = (ms \div 1000) \div 60
        /\ int(seconds) = (ms \div 1000) % 60
        /\ Len(minutes) > 1 => minutes[1] # "0"

\* the text is <digits>.<digit>, a tenth nearest to progress / duration * 100
IsPercent(text, progress, duration) ==
    LET dot == Find(text, ".")
        whole == SubSeq(text, 1, dot - 1)
        tenths == int(whole) * 10 + int(SubSeq(text, dot + 1, Len(text)))
        diff == 1000 * progress - tenths * duration
    IN  /\ dot > 1
        /\ Len(text) = dot + 1
        /\ int(whole) >= 0
        /\ Len(whole) > 1 => whole[1] # "0"
        /\ 2 * diff <= duration
        /\ 0 - 2 * diff <= duration

ProgressShown == SelectSeq(out, LAMBDA m : m.msg = "Progress")

\* C9: Current Track Info renders progress and duration as M:SS from the
\* truncated seconds, seconds zero-padded to two digits, and the percentage
\* progress_ms / duration_ms * 100 to one decimal place; 65000 of 200000 ms
\* renders "1:05", "3:20" and "32.5".
C9_ProgressRendering ==
    (handler = "show_current_track" /\ ProgressShown # <<>>) =>
        LET current == calls[1].result.value
            shown == ProgressShown[1]
        IN  /\ IsMinutesSeconds(shown.progress_str, current.progress_ms)
            /\ IsMinutesSeconds(shown.duration_str, current.item.duration_ms)
            /\ IsPercent(shown.percent_str, current.progress_ms,
                         current.item.duration_ms)
            /\ (current.progress_ms = 65000
                    /\ current.item.duration_ms = 200000) =>
                  /\ shown.progress_str = <<"1", ":", "0", "5">>
                  /\ shown.duration_str = <<"3", ":", "2", "0">>
                  /\ shown.percent_str = <<"3", "2", ".", "5">>

C9_Witness ==
    /\ handler = "show_current_track"
    /\ ProgressShown # <<>>
    /\ calls[1].result.value.progress_ms = 65000
    /\ calls[1].result.value.item.duration_ms = 200000
    /\ ProgressShown[1].percent_str = <<"3", "2", ".", "5">>

\* C10: in Search Track and List Playlists the list offered for selection
\* has at most 10 items, so every index that starts playback is in 1..10.
C10_AtMostTenOffered ==
    handler \in {"search_track", "list_playlists"} =>
        /\ Len(SelectionList) <= 10
        /\ \A v \in 1..Len(SelectionList) :
              (Selected(v) /\ CallsOf("start_playback") # <<>>) => v <= 10

====
